---- MODULE Spec2Model ----
(***************************************************************************)
(* Model of Sources/inspector-test.cpp: the two task runners (backend and  *)
(* frontend), the native functions exposed to scripts (setTimeout, quit),  *)
(* the global shutdown (Terminate / Exit), the transport callback          *)
(* receiveMessage_, the outbound channel SendMessageToFrontend and the     *)
(* staged start-up of kore().                                              *)
(*                                                                         *)
(* TaskRunner (task-runner.h) and InspectorClientImpl (inspector-impl.h)   *)
(* are only used, not defined, in the source file; their behaviour is      *)
(* taken from the written specification (sections 4.1, 4.2 and 4.4).       *)
(***************************************************************************)
EXTENDS Integers, Sequences, FiniteSets, TLC

(* ---------------------------- bounds ----------------------------------- *)
\* number of Tasks that may be created in one run (caps the unbounded queues)
MaxTasks == 4
\* number of messages the transport delivers in one run
MaxRecv == 2
\* depth of scripts run by load(...) inside one Task
MaxNest == 1
\* length of the queue a Runner is handed when its Tasks are run on their own
MaxQueue == 3

(* --------------------------- constants --------------------------------- *)
\* char msg[2048] in SendMessageToFrontend
MsgBufSize == 2048

Runners == {"backend", "frontend"}
\* threads that can execute the global shutdown
Threads == {"main", "backend", "frontend"}
\* threads of the transport that invoke the inbound callback
Transports == {"t1", "t2"}
Msgs == {"cmd1", "cmd2"}
\* the deliveries tried: each transport thread with a message of its own
Deliveries == {[from |-> "t1", msg |-> "cmd1"], [from |-> "t2", msg |-> "cmd2"]}
\* who signals ready_semaphore
Stages == {"backend", "frontend", "bridge", "server"}

NoTask == [id |-> 0, kind |-> "none", msg |-> ""]
NoLoad == [ev |-> "none", depth |-> 0, rejected |-> FALSE]
NoCall == [fn |-> "none", target |-> "none"]

VARIABLES
  mainPc,                 \* position of kore() on the main thread
  ready_semaphore,        \* tokens of the shared semaphore, by signalling stage
  released,               \* which stage's token released the k-th Wait
  rstate,                 \* per Runner: none / init / idle / running / exited
  queue,                  \* per Runner: FIFO of Tasks
  terminated,             \* per Runner: termination flag
  cur,                    \* per Runner: the Task in flight
  tpc,                    \* per Runner: position inside the Task in flight
  call,                   \* per Runner: native call that is inside Exit()
  sessionBound,           \* a Session is attached to the backend context
  clientCreated,          \* InspectorClientImpl has been constructed
  receiveMessageCallback, \* the transport's inbound callback slot
  serverStarted,          \* startServer has been called
  task_runners,           \* the global vector of registered runners
  backend_task_runner,    \* the global pointer used by receiveMessage_
  sdPhase,                \* per thread: position inside Terminate()
  sdI,                    \* per thread: loop index i of Terminate()
  aborted,                \* CHECK(session) failed: the process is gone
  nextId,                 \* next Task identity
  appendLog,              \* per Runner: Task ids in order of Append completion
  log,                    \* per Runner: start / end events of Tasks
  sessLog,                \* begin / end events of Session dispatch
  recvLog,                \* the calls of receiveMessage_, in order of Append
  deferred,               \* bookkeeping of accepted setTimeout calls
  termCalls,              \* per Runner: number of TaskRunner::Terminate calls
  joined,                 \* per Runner: a Join on it has returned
  sendIn,                 \* message handed to SendMessageToFrontend
  sendOut,                \* what reached the transport's sendMessage
  nest,                   \* per Runner: depth of scripts run inline by load
  lastLoad,               \* per Runner: what the last call of load did
  notifLog,               \* per Runner: notifications to the inspector and
                          \* the call of the callback, in the Task in flight
  sessions,               \* number of Sessions bound to the backend context
  bootRead,               \* result of reading the bootstrap script
  joinCalls               \* per Runner: number of Join calls that returned

startVars == <<ready_semaphore, released, clientCreated,
               receiveMessageCallback, serverStarted, backend_task_runner>>
runVars   == <<rstate, queue, terminated, cur, tpc, call>>
sdVars    == <<sdPhase, sdI, task_runners>>
histVars  == <<appendLog, log, sessLog, recvLog, deferred, termCalls, joined>>
sendVars  == <<sendIn, sendOut>>
extVars   == <<nest, lastLoad, notifLog, sessions, bootRead,
               joinCalls>>
vars == <<mainPc, startVars, runVars, sdVars, histVars, sendVars, extVars,
          sessionBound, aborted, nextId>>

NoSend == [phase |-> "none"]

InitRun ==
  /\ mainPc = "create_backend"
  /\ ready_semaphore = [s \in Stages |-> 0]
  /\ released = [k \in 1..3 |-> "none"]
  /\ rstate = [r \in Runners |-> "none"]
  /\ queue = [r \in Runners |-> <<>>]
  /\ terminated = [r \in Runners |-> FALSE]
  /\ cur = [r \in Runners |-> NoTask]
  /\ tpc = [r \in Runners |-> "-"]
  /\ call = [r \in Runners |-> NoCall]
  /\ sessionBound = FALSE
  /\ clientCreated = FALSE
  /\ receiveMessageCallback = "null"
  /\ serverStarted = FALSE
  /\ task_runners = <<>>
  /\ backend_task_runner = "null"
  /\ sdPhase = [th \in Threads |-> "none"]
  /\ sdI = [th \in Threads |-> 0]
  /\ aborted = FALSE
  /\ nextId = 1
  /\ appendLog = [r \in Runners |-> <<>>]
  /\ log = [r \in Runners |-> <<>>]
  /\ sessLog = <<>>
  /\ recvLog = <<>>
  /\ deferred = {}
  /\ termCalls = [r \in Runners |-> 0]
  /\ joined = [r \in Runners |-> FALSE]
  /\ nest = [r \in Runners |-> 0]
  /\ lastLoad = [r \in Runners |-> NoLoad]
  /\ notifLog = [r \in Runners |-> <<>>]
  /\ sessions = 0
  /\ bootRead = "none"
  /\ joinCalls = [r \in Runners |-> 0]

Init == InitRun /\ sendIn = NoSend /\ sendOut = NoSend

(* ------------------------- TaskRunner ---------------------------------- *)
\* a faulty Append that puts the Task at the head of the queue
TaskRunner_Append_front(q, t) == <<t>> \o q

\* TaskRunner::Append: thread-safe enqueue at the tail of the queue
TaskRunner_Append(q, t) == Append(q, t)

\* a faulty Terminate that flips the flag instead of setting it
TaskRunner_Terminate_toggle(flag) == ~flag

\* TaskRunner::Terminate: sets the termination flag (and wakes the loop)
TaskRunner_Terminate(flag) == TRUE

\* a faulty Join that hands control back while the thread still runs
TaskRunner_Join_noblock(r) == TRUE

\* TaskRunner::Join: the caller may go on once the Runner's thread has exited
TaskRunner_Join(r) == rstate[r] = "exited"

\* TaskRunner::FromContext: the Runner that owns the calling context
TaskRunner_FromContext(ctx) == ctx

\* InspectorClientImpl::SessionFromContext: only the backend context has one
SessionFromContext(ctx) ==
  IF ctx = "backend" /\ sessionBound THEN "session" ELSE "null"

\* extensions of each Runner's context (backend_extensions, frontend_extensions)
Extensions(r) ==
  IF r = "backend" THEN {"setTimeout"} ELSE {"quit", "load", "print", "setlocale"}

\* enqueue Task t on Runner r: the queue, plus the bookkeeping of the order
DoAppend(r, t) ==
  /\ queue' = [queue EXCEPT ![r] = TaskRunner_Append(@, t)]
  /\ appendLog' = [appendLog EXCEPT ![r] = Append(@, t.id)]
  /\ nextId' = nextId + 1

\* the Runner's thread: builds its context, signals ready, enters its loop
RunnerStart(r) ==
  /\ ~aborted
  /\ rstate[r] = "init"
  /\ rstate' = [rstate EXCEPT ![r] = "idle"]
  /\ ready_semaphore' = [ready_semaphore EXCEPT ![r] = @ + 1]
  /\ UNCHANGED <<mainPc, released, clientCreated, receiveMessageCallback,
                 serverStarted, backend_task_runner, queue, terminated, cur,
                 tpc, call, sdVars, histVars, sendVars, extVars, sessionBound, aborted,
                 nextId>>

\* InspectorClientImpl::InspectorFromContext: the inspector exists in the
\* context the bridge has connected to
InspectorFromContext(ctx) ==
  IF ctx = "backend" /\ sessionBound THEN "inspector" ELSE "null"

\* SetTimeoutTask::Run up to the call of the function
SetTimeoutTask_Run_Call(r) ==
  (IF InspectorFromContext(r) # "null" THEN <<"will">> ELSE <<>>)
    \o <<"invoke">>

\* a faulty Run that leaves out the notification after the call
SetTimeoutTask_Run_Rest_nodid(r) == <<"return">>

\* SetTimeoutTask::Run after the call: the local variable inspector is the
\* one read before the call
SetTimeoutTask_Run_Rest(r) ==
  <<"return">>
    \o (IF Head(notifLog[r]) = "will" THEN <<"did">> ELSE <<>>)

\* a faulty Run that dispatches without the check of the Session
SendMessageToBackendTask_Run_nocheck(r, t) ==
  /\ aborted' = aborted
  /\ sessLog' = Append(sessLog, [ev |-> "begin", id |-> t.id,
                                 msg |-> t.msg, thread |-> r, ctx |-> r])

\* SendMessageToBackendTask::Run, first half: look the Session up, CHECK it,
\* enter dispatchProtocolMessage
SendMessageToBackendTask_Run(r, t) ==
  IF SessionFromContext(r) = "null"
    THEN /\ aborted' = TRUE
         /\ sessLog' = sessLog
    ELSE /\ aborted' = aborted
         /\ sessLog' = Append(sessLog, [ev |-> "begin", id |-> t.id,
                                        msg |-> t.msg, thread |-> r, ctx |-> r])

\* the dispatch loop takes the earliest Task and runs it
RunnerTake(r) ==
  /\ ~aborted
  /\ rstate[r] = "idle"
  /\ ~terminated[r]
  /\ queue[r] # <<>>
  /\ LET t == Head(queue[r]) IN
       /\ queue' = [queue EXCEPT ![r] = Tail(@)]
       /\ cur' = [cur EXCEPT ![r] = t]
       /\ rstate' = [rstate EXCEPT ![r] = "running"]
       /\ tpc' = [tpc EXCEPT ![r] = "body"]
       /\ log' = [log EXCEPT ![r] = Append(@, [ev |-> "start", id |-> t.id])]
       /\ IF t.kind = "Dispatch"
            THEN SendMessageToBackendTask_Run(r, t)
            ELSE UNCHANGED <<aborted, sessLog>>
       /\ notifLog' = [notifLog EXCEPT ![r] =
                         IF t.kind = "Timer"
                           THEN SetTimeoutTask_Run_Call(r) ELSE <<>>]
  /\ UNCHANGED <<mainPc, startVars, terminated, call, sdVars, appendLog,
                 recvLog, deferred, termCalls, joined, sendVars, nest,
                 lastLoad, sessions, bootRead, joinCalls, sessionBound,
                 nextId>>

\* the function called by SetTimeoutTask::Run returns normally
TaskReturn(r) ==
  /\ ~aborted
  /\ rstate[r] = "running"
  /\ tpc[r] = "body"
  /\ nest[r] = 0
  /\ cur[r].kind = "Timer"
  /\ tpc' = [tpc EXCEPT ![r] = "done"]
  /\ notifLog' = [notifLog EXCEPT ![r] = @ \o SetTimeoutTask_Run_Rest(r)]
  /\ UNCHANGED <<mainPc, startVars, rstate, queue, terminated, cur, call,
                 sdVars, histVars, sendVars, nest, lastLoad, sessions,
                 bootRead, joinCalls, sessionBound, aborted, nextId>>

\* a faulty loop that stops the Runner when the script of a Task throws
TaskThrow_fatal(r) ==
  /\ ~aborted
  /\ rstate[r] = "running"
  /\ tpc[r] = "body"
  /\ nest[r] = 0
  /\ cur[r].kind \in {"Script", "Timer"}
  /\ tpc' = [tpc EXCEPT ![r] = "threw"]
  /\ terminated' = [terminated EXCEPT ![r] = TRUE]
  /\ notifLog' = [notifLog EXCEPT ![r] =
                    IF cur[r].kind = "Timer"
                      THEN @ \o SetTimeoutTask_Run_Rest(r) ELSE @]
  /\ UNCHANGED <<mainPc, startVars, rstate, queue, cur, call,
                 sdVars, histVars, sendVars, nest, lastLoad, sessions,
                 bootRead, joinCalls, sessionBound, aborted, nextId>>

\* the script of a RunScript Task, or the function of a timer Task, throws:
\* the function call hands back an empty result, and the rest of Run runs
TaskThrow(r) ==
  /\ ~aborted
  /\ rstate[r] = "running"
  /\ tpc[r] = "body"
  /\ nest[r] = 0
  /\ cur[r].kind \in {"Script", "Timer"}
  /\ tpc' = [tpc EXCEPT ![r] = "threw"]
  /\ notifLog' = [notifLog EXCEPT ![r] =
                    IF cur[r].kind = "Timer"
                      THEN @ \o SetTimeoutTask_Run_Rest(r) ELSE @]
  /\ UNCHANGED <<mainPc, startVars, rstate, queue, terminated, cur, call,
                 sdVars, histVars, sendVars, nest, lastLoad, sessions,
                 bootRead, joinCalls, sessionBound, aborted, nextId>>

\* Run of the Task in flight is over (what it threw is caught at the loop);
\* the loop goes back to waiting
TaskFinish(r) ==
  /\ ~aborted
  /\ rstate[r] = "running"
  /\ \/ tpc[r] = "body" /\ cur[r].kind # "Timer"
     \/ tpc[r] \in {"done", "threw"}
  /\ nest[r] = 0
  /\ lastLoad' = [lastLoad EXCEPT ![r] = NoLoad]
  /\ notifLog' = [notifLog EXCEPT ![r] = <<>>]
  /\ rstate' = [rstate EXCEPT ![r] = "idle"]
  /\ cur' = [cur EXCEPT ![r] = NoTask]
  /\ tpc' = [tpc EXCEPT ![r] = "-"]
  /\ log' = [log EXCEPT ![r] = Append(@, [ev |-> "end", id |-> cur[r].id])]
  /\ sessLog' = IF cur[r].kind = "Dispatch"
                  THEN Append(sessLog, [ev |-> "end", id |-> cur[r].id,
                                        msg |-> cur[r].msg, thread |-> r,
                                        ctx |-> r])
                  ELSE sessLog
  \* the connect Task of InspectorClientImpl binds the Session and signals
  /\ IF cur[r].kind = "Connect"
       THEN /\ sessionBound' = TRUE
            /\ sessions' = sessions + 1
            /\ ready_semaphore' = [ready_semaphore EXCEPT !["bridge"] = @ + 1]
       ELSE UNCHANGED <<sessionBound, sessions, ready_semaphore>>
  /\ UNCHANGED <<mainPc, released, clientCreated, receiveMessageCallback,
                 serverStarted, backend_task_runner, queue, terminated, call,
                 sdVars, appendLog, recvLog, deferred, termCalls, joined,
                 sendVars, nest, bootRead, joinCalls, aborted, nextId>>

\* the loop sees the termination flag: queued Tasks are dropped, thread exits
RunnerExit(r) ==
  /\ ~aborted
  /\ rstate[r] = "idle"
  /\ terminated[r]
  /\ rstate' = [rstate EXCEPT ![r] = "exited"]
  /\ queue' = [queue EXCEPT ![r] = <<>>]
  /\ UNCHANGED <<mainPc, startVars, terminated, cur, tpc, call, sdVars,
                 histVars, sendVars, extVars, sessionBound, aborted, nextId>>


(* ------------------- global shutdown: Terminate / Exit ------------------ *)
\* Exit(): flush, then enter Terminate() with i = 0 (1 in this model)
Exit(th) ==
  /\ sdPhase' = [sdPhase EXCEPT ![th] = "terminate"]
  /\ sdI' = [sdI EXCEPT ![th] = 1]

\* the body of SetTimeout after the argument check: Append a Task for the
\* target on the Runner of the calling context
SetTimeout_Append(r, target, rejected) ==
  /\ nextId <= MaxTasks
  /\ DoAppend(TaskRunner_FromContext(r),
              [id |-> nextId,
               kind |-> IF target = "function" THEN "Timer" ELSE "Script",
               msg |-> ""])
  /\ deferred' = deferred \cup
       {[id |-> nextId, caller |-> cur[r].id, runner |-> r,
         ahead |-> {queue[r][k].id : k \in 1..Len(queue[r])},
         rejected |-> rejected]}

\* the body of Load after the argument check: ReadFile, then either
\* ThrowException and return, or ExecuteStringTask::Run inside the call
Load_Read(r, exists, rejected) ==
  /\ exists => nest[r] < MaxNest
  /\ lastLoad' = [lastLoad EXCEPT ![r] =
                    IF exists
                      THEN [ev |-> "run", depth |-> nest[r] + 1,
                            rejected |-> rejected]
                      ELSE [ev |-> "error", depth |-> nest[r],
                            rejected |-> rejected]]
  /\ nest' = [nest EXCEPT ![r] = IF exists THEN @ + 1 ELSE @]

\* Terminate(), loop body first statement: task_runners[i]->Terminate()
Terminate_Terminate(th) ==
  /\ ~aborted
  /\ sdPhase[th] = "terminate"
  /\ sdI[th] <= Len(task_runners)
  /\ LET r == task_runners[sdI[th]] IN
       /\ terminated' = [terminated EXCEPT ![r] = TaskRunner_Terminate(@)]
       /\ termCalls' = [termCalls EXCEPT ![r] = @ + 1]
  /\ sdPhase' = [sdPhase EXCEPT ![th] = "join"]
  /\ UNCHANGED <<mainPc, startVars, rstate, queue, cur, tpc, call, sdI,
                 task_runners, appendLog, log, sessLog, recvLog, deferred,
                 joined, sendVars, extVars, sessionBound, aborted, nextId>>

\* a faulty loop that does not wait in Join before it goes to the next Runner
Terminate_Join_nowait(th) ==
  /\ ~aborted
  /\ sdPhase[th] = "join"
  /\ sdI[th] <= Len(task_runners)
  /\ joined' = [joined EXCEPT ![task_runners[sdI[th]]] = TRUE]
  /\ joinCalls' = [joinCalls EXCEPT ![task_runners[sdI[th]]] = @ + 1]
  /\ sdI' = [sdI EXCEPT ![th] = @ + 1]
  /\ sdPhase' = [sdPhase EXCEPT ![th] = "terminate"]
  /\ UNCHANGED <<mainPc, startVars, runVars, task_runners, appendLog, log,
                 sessLog, recvLog, deferred, termCalls, sendVars, nest,
                 lastLoad, notifLog, sessions, bootRead, sessionBound,
                 aborted, nextId>>

\* Terminate(), loop body second statement: task_runners[i]->Join(); ++i
Terminate_Join(th) ==
  /\ ~aborted
  /\ sdPhase[th] = "join"
  /\ sdI[th] <= Len(task_runners)
  /\ TaskRunner_Join(task_runners[sdI[th]])
  /\ joined' = [joined EXCEPT ![task_runners[sdI[th]]] = TRUE]
  /\ joinCalls' = [joinCalls EXCEPT ![task_runners[sdI[th]]] = @ + 1]
  /\ sdI' = [sdI EXCEPT ![th] = @ + 1]
  /\ sdPhase' = [sdPhase EXCEPT ![th] = "terminate"]
  /\ UNCHANGED <<mainPc, startVars, runVars, task_runners, appendLog, log,
                 sessLog, recvLog, deferred, termCalls, sendVars, nest, lastLoad, notifLog, sessions, bootRead, sessionBound,
                 aborted, nextId>>

\* Terminate(), after the loop: swap the list with an empty one and return
\* to the caller of Exit(); no caller returns after Exit(), each goes on
\* with the statement that follows it
Terminate_Return(th) ==
  /\ ~aborted
  /\ sdPhase[th] = "terminate"
  /\ sdI[th] > Len(task_runners)
  /\ task_runners' = <<>>
  /\ sdPhase' = [sdPhase EXCEPT ![th] = "none"]
  /\ sdI' = [sdI EXCEPT ![th] = 0]
  /\ IF th = "main"
       THEN /\ mainPc' = "append_boot"
            /\ UNCHANGED <<tpc, call, queue, appendLog, nextId, deferred,
                           nest, lastLoad>>
       ELSE /\ mainPc' = mainPc
            /\ tpc' = [tpc EXCEPT ![th] = "body"]
            /\ call' = [call EXCEPT ![th] = NoCall]
            \* no return follows Exit() in SetTimeout and in Load
            /\ IF call[th].fn = "setTimeout"
                 THEN /\ SetTimeout_Append(th, call[th].target, TRUE)
                      /\ UNCHANGED <<nest, lastLoad>>
                 ELSE IF call[th].fn = "load"
                 THEN /\ Load_Read(th, call[th].target = "exists", TRUE)
                      /\ UNCHANGED <<queue, appendLog, nextId, deferred>>
                 ELSE UNCHANGED <<queue, appendLog, nextId, deferred,
                                  nest, lastLoad>>
  /\ UNCHANGED <<startVars, rstate, terminated, cur, log, sessLog, recvLog,
                 termCalls, joined, sendVars, notifLog, sessions,
                 bootRead, joinCalls, sessionBound, aborted>>

(* ------------------------ native functions ------------------------------ *)
\* the calls tried: the two accepted shapes, and one call for each
\* condition of the argument check that can fail
SetTimeoutArgs ==
  { [argc |-> 2, target |-> "function", delay |-> "zero"],
    [argc |-> 2, target |-> "string", delay |-> "zero"],
    [argc |-> 1, target |-> "function", delay |-> "notnumber"],
    [argc |-> 2, target |-> "function", delay |-> "notnumber"],
    [argc |-> 2, target |-> "other", delay |-> "zero"],
    [argc |-> 2, target |-> "function", delay |-> "nonzero"],
    [argc |-> 2, target |-> "string", delay |-> "nonzero"] }

\* the argument check of SetTimeout
SetTimeout_Valid(a) ==
  /\ a.argc = 2
  /\ a.delay # "notnumber"
  /\ a.target \in {"function", "string"}
  /\ a.delay = "zero"

\* a faulty setTimeout that invokes an accepted target at once, inside the
\* call, instead of appending a Task for it
SetTimeout_inline(r, a) ==
  /\ ~aborted
  /\ rstate[r] = "running"
  /\ tpc[r] = "body"
  /\ cur[r].kind # "Connect"
  /\ "setTimeout" \in Extensions(r)
  /\ IF SetTimeout_Valid(a)
       THEN /\ nextId <= MaxTasks
            /\ nextId' = nextId + 1
            /\ log' = [log EXCEPT ![r] = @ \o <<[ev |-> "start", id |-> nextId],
                                                [ev |-> "end", id |-> nextId]>>]
            /\ deferred' = deferred \cup
                 {[id |-> nextId, caller |-> cur[r].id, runner |-> r,
                   ahead |-> {queue[r][k].id : k \in 1..Len(queue[r])},
                   rejected |-> FALSE]}
            /\ UNCHANGED <<tpc, call, sdPhase, sdI>>
       ELSE /\ Exit(r)
            /\ tpc' = [tpc EXCEPT ![r] = "exit"]
            /\ call' = [call EXCEPT ![r] = [fn |-> "setTimeout",
                                            target |-> a.target]]
            /\ UNCHANGED <<nextId, deferred, log>>
  /\ UNCHANGED <<mainPc, startVars, rstate, queue, terminated, cur,
                 task_runners, appendLog, sessLog, recvLog, termCalls, joined,
                 sendVars, extVars, sessionBound, aborted>>

\* a script running in the context of Runner r calls setTimeout(...)
SetTimeout(r, a) ==
  /\ ~aborted
  /\ rstate[r] = "running"
  /\ tpc[r] = "body"
  /\ cur[r].kind # "Connect"
  /\ "setTimeout" \in Extensions(r)
  /\ IF SetTimeout_Valid(a)
       THEN /\ SetTimeout_Append(r, a.target, FALSE)
            /\ UNCHANGED <<tpc, call, sdPhase, sdI>>
       ELSE /\ Exit(r)
            /\ tpc' = [tpc EXCEPT ![r] = "exit"]
            /\ call' = [call EXCEPT ![r] = [fn |-> "setTimeout",
                                            target |-> a.target]]
            /\ UNCHANGED <<queue, appendLog, nextId, deferred>>
  /\ UNCHANGED <<mainPc, startVars, rstate, terminated, cur, task_runners,
                 log, sessLog, recvLog, termCalls, joined, sendVars, extVars,
                 sessionBound, aborted>>

\* a script running in the context of Runner r calls quit()
Quit(r) ==
  /\ ~aborted
  /\ rstate[r] = "running"
  /\ tpc[r] = "body"
  /\ "quit" \in Extensions(r)
  /\ Exit(r)
  /\ tpc' = [tpc EXCEPT ![r] = "exit"]
  /\ call' = [call EXCEPT ![r] = [fn |-> "quit", target |-> "none"]]
  /\ UNCHANGED <<mainPc, startVars, rstate, queue, terminated, cur,
                 task_runners, histVars, sendVars, extVars, sessionBound, aborted,
                 nextId>>

\* the calls of load tried: the accepted shape and one call for each
\* condition of the argument check that can fail
LoadArgs ==
  { [argc |-> 1, isString |-> TRUE],
    [argc |-> 1, isString |-> FALSE],
    [argc |-> 2, isString |-> TRUE] }

\* the argument check of Load
Load_Valid(a) == a.argc = 1 /\ a.isString

\* a faulty load that treats a missing file as fatal
Load_fatal(r, a, exists) ==
  /\ ~aborted
  /\ rstate[r] = "running"
  /\ tpc[r] = "body"
  /\ "load" \in Extensions(r)
  /\ IF Load_Valid(a) /\ exists
       THEN /\ Load_Read(r, exists, FALSE)
            /\ UNCHANGED <<tpc, call, sdPhase, sdI>>
       ELSE /\ Exit(r)
            /\ tpc' = [tpc EXCEPT ![r] = "exit"]
            /\ call' = [call EXCEPT ![r] =
                         [fn |-> "load",
                          target |-> IF exists THEN "exists" ELSE "missing"]]
            /\ IF Load_Valid(a)
                 THEN /\ lastLoad' = [lastLoad EXCEPT ![r] =
                            [ev |-> "error", depth |-> nest[r],
                             rejected |-> FALSE]]
                      /\ nest' = nest
                 ELSE UNCHANGED <<nest, lastLoad>>
  /\ UNCHANGED <<mainPc, startVars, rstate, queue, terminated, cur,
                 task_runners, histVars, sendVars, notifLog,
                 sessions, bootRead, joinCalls, sessionBound, aborted, nextId>>

\* a faulty load that queues the script of the file as a Task
Load_queued(r, a, exists) ==
  /\ ~aborted
  /\ rstate[r] = "running"
  /\ tpc[r] = "body"
  /\ "load" \in Extensions(r)
  /\ IF Load_Valid(a)
       THEN /\ lastLoad' = [lastLoad EXCEPT ![r] =
                  IF exists
                    THEN [ev |-> "run", depth |-> nest[r] + 1,
                          rejected |-> FALSE]
                    ELSE [ev |-> "error", depth |-> nest[r],
                          rejected |-> FALSE]]
            /\ nest' = nest
            /\ IF exists
                 THEN /\ nextId <= MaxTasks
                      /\ DoAppend(r, [id |-> nextId, kind |-> "Script",
                                      msg |-> ""])
                 ELSE UNCHANGED <<queue, appendLog, nextId>>
            /\ UNCHANGED <<tpc, call, sdPhase, sdI>>
       ELSE /\ Exit(r)
            /\ tpc' = [tpc EXCEPT ![r] = "exit"]
            /\ call' = [call EXCEPT ![r] =
                         [fn |-> "load",
                          target |-> IF exists THEN "exists" ELSE "missing"]]
            /\ UNCHANGED <<nest, lastLoad, queue, appendLog, nextId>>
  /\ UNCHANGED <<mainPc, startVars, rstate, terminated, cur, task_runners,
                 log, sessLog, recvLog, deferred, termCalls, joined, sendVars,
                 notifLog, sessions, bootRead, joinCalls,
                 sessionBound, aborted>>

\* a script running in the context of Runner r calls load(...); exists is
\* what ReadFile reports for the name
Load(r, a, exists) ==
  /\ ~aborted
  /\ rstate[r] = "running"
  /\ tpc[r] = "body"
  /\ "load" \in Extensions(r)
  /\ IF Load_Valid(a)
       THEN /\ Load_Read(r, exists, FALSE)
            /\ UNCHANGED <<tpc, call, sdPhase, sdI>>
       ELSE /\ Exit(r)
            /\ tpc' = [tpc EXCEPT ![r] = "exit"]
            /\ call' = [call EXCEPT ![r] =
                         [fn |-> "load",
                          target |-> IF exists THEN "exists" ELSE "missing"]]
            /\ UNCHANGED <<nest, lastLoad>>
  /\ UNCHANGED <<mainPc, startVars, rstate, queue, terminated, cur,
                 task_runners, histVars, sendVars, notifLog,
                 sessions, bootRead, joinCalls, sessionBound, aborted, nextId>>

\* the script of a loaded file has run to its end (or failed, which
\* ExecuteStringTask catches): task.Run returns and so does load
Load_Return(r) ==
  /\ ~aborted
  /\ rstate[r] = "running"
  /\ tpc[r] = "body"
  /\ nest[r] > 0
  /\ nest' = [nest EXCEPT ![r] = @ - 1]
  /\ lastLoad' = [lastLoad EXCEPT ![r] = [ev |-> "none", depth |-> 0,
                                          rejected |-> @.rejected]]
  /\ UNCHANGED <<mainPc, startVars, runVars, sdVars, histVars, sendVars,
                 notifLog, sessions, bootRead, joinCalls,
                 sessionBound, aborted, nextId>>

(* ------------------------ transport callback ---------------------------- *)
\* a faulty callback that hands the Task to the frontend Runner
receiveMessage_frontend(t, m) ==
  /\ ~aborted
  /\ receiveMessageCallback = "receiveMessage_"
  /\ serverStarted
  /\ Len(recvLog) < MaxRecv
  /\ nextId <= MaxTasks
  /\ DoAppend("frontend", [id |-> nextId, kind |-> "Dispatch", msg |-> m])
  /\ recvLog' = Append(recvLog, [id |-> nextId, msg |-> m, from |-> t])
  /\ UNCHANGED <<mainPc, startVars, rstate, terminated, cur, tpc, call,
                 sdVars, log, sessLog, deferred, termCalls, joined, sendVars, extVars,
                 sessionBound, aborted>>

\* a faulty callback that enqueues the Task twice
receiveMessage_twice(t, m) ==
  /\ ~aborted
  /\ receiveMessageCallback = "receiveMessage_"
  /\ serverStarted
  /\ Len(recvLog) < MaxRecv
  /\ nextId <= MaxTasks
  /\ queue' = [queue EXCEPT ![backend_task_runner] =
                 @ \o << [id |-> nextId, kind |-> "Dispatch", msg |-> m],
                         [id |-> nextId, kind |-> "Dispatch", msg |-> m] >>]
  /\ appendLog' = [appendLog EXCEPT ![backend_task_runner] = Append(@, nextId)]
  /\ nextId' = nextId + 1
  /\ recvLog' = Append(recvLog, [id |-> nextId, msg |-> m, from |-> t])
  /\ UNCHANGED <<mainPc, startVars, rstate, terminated, cur, tpc, call,
                 sdVars, log, sessLog, deferred, termCalls, joined, sendVars, extVars,
                 sessionBound, aborted>>

\* a faulty callback that dispatches to the Session on the calling thread
\* (the commented-out sendMessageToBackend path)
receiveMessage_inline(t, m) ==
  /\ ~aborted
  /\ receiveMessageCallback = "receiveMessage_"
  /\ serverStarted
  /\ Len(recvLog) < MaxRecv
  /\ nextId <= MaxTasks
  /\ nextId' = nextId + 1
  /\ sessLog' = sessLog \o
       << [ev |-> "begin", id |-> nextId, msg |-> m, thread |-> t,
           ctx |-> "backend"],
          [ev |-> "end", id |-> nextId, msg |-> m, thread |-> t,
           ctx |-> "backend"] >>
  /\ recvLog' = Append(recvLog, [id |-> nextId, msg |-> m, from |-> t])
  /\ UNCHANGED <<mainPc, startVars, runVars, sdVars, appendLog, log, deferred,
                 termCalls, joined, sendVars, extVars, sessionBound, aborted>>

\* receiveMessage_, called by transport thread t with text m
receiveMessage_(t, m) ==
  /\ ~aborted
  /\ receiveMessageCallback = "receiveMessage_"
  /\ serverStarted
  /\ Len(recvLog) < MaxRecv
  /\ nextId <= MaxTasks
  /\ DoAppend(backend_task_runner,
              [id |-> nextId, kind |-> "Dispatch", msg |-> m])
  /\ recvLog' = Append(recvLog, [id |-> nextId, msg |-> m, from |-> t])
  /\ UNCHANGED <<mainPc, startVars, rstate, terminated, cur, tpc, call,
                 sdVars, log, sessLog, deferred, termCalls, joined, sendVars, extVars,
                 sessionBound, aborted>>


(* ------------------------------ kore() ---------------------------------- *)
\* TaskRunner backend_runner(...); backend_task_runner = &backend_runner
kore_CreateBackend ==
  /\ ~aborted
  /\ mainPc = "create_backend"
  /\ rstate' = [rstate EXCEPT !["backend"] = "init"]
  /\ backend_task_runner' = "backend"
  /\ mainPc' = "wait1"
  /\ UNCHANGED <<ready_semaphore, released, clientCreated,
                 receiveMessageCallback, serverStarted, queue, terminated,
                 cur, tpc, call, sdVars, histVars, sendVars, extVars, sessionBound,
                 aborted, nextId>>

\* where kore() goes on after its k-th ready_semaphore.Wait()
AfterWait(k) ==
  IF k = 1 THEN "create_frontend"
  ELSE IF k = 2 THEN "create_client" ELSE "register"

\* a faulty Wait that goes on without a token
kore_Wait_nowait(k) ==
  /\ ~aborted
  /\ mainPc = "wait" \o ToString(k)
  /\ mainPc' = AfterWait(k)
  /\ UNCHANGED <<startVars, runVars, sdVars, histVars, sendVars, extVars,
                 sessionBound, aborted, nextId>>

\* the k-th ready_semaphore.Wait(): takes one token, whoever signalled it
kore_Wait(k) ==
  /\ ~aborted
  /\ mainPc = "wait" \o ToString(k)
  /\ \E s \in Stages :
       /\ ready_semaphore[s] > 0
       /\ ready_semaphore' = [ready_semaphore EXCEPT ![s] = @ - 1]
       /\ released' = [released EXCEPT ![k] = s]
  /\ mainPc' = AfterWait(k)
  /\ UNCHANGED <<clientCreated, receiveMessageCallback, serverStarted,
                 backend_task_runner, runVars, sdVars, histVars, sendVars, extVars,
                 sessionBound, aborted, nextId>>

\* TaskRunner frontend_runner(...)
kore_CreateFrontend ==
  /\ ~aborted
  /\ mainPc = "create_frontend"
  /\ rstate' = [rstate EXCEPT !["frontend"] = "init"]
  /\ mainPc' = "wait2"
  /\ UNCHANGED <<startVars, queue, terminated, cur, tpc, call, sdVars,
                 histVars, sendVars, extVars, sessionBound, aborted, nextId>>

\* InspectorClientImpl inspector_client(&backend_runner, ...): its
\* constructor posts the connect Task to the backend Runner
kore_CreateClient ==
  /\ ~aborted
  /\ mainPc = "create_client"
  /\ clientCreated' = TRUE
  /\ DoAppend("backend", [id |-> nextId, kind |-> "Connect", msg |-> ""])
  /\ mainPc' = "wait3"
  /\ UNCHANGED <<ready_semaphore, released, receiveMessageCallback,
                 serverStarted, backend_task_runner, rstate, terminated, cur,
                 tpc, call, sdVars, log, sessLog, recvLog, deferred, termCalls,
                 joined, sendVars, extVars, sessionBound, aborted>>

\* task_runners.push_back(&frontend_runner); push_back(&backend_runner)
kore_Register ==
  /\ ~aborted
  /\ mainPc = "register"
  /\ task_runners' = task_runners \o <<"frontend", "backend">>
  /\ mainPc' = "set_callback"
  /\ UNCHANGED <<startVars, runVars, sdPhase, sdI, histVars, sendVars, extVars,
                 sessionBound, aborted, nextId>>

\* a faulty start-up that registers the callback without waiting for the
\* bridge
kore_SetCallback_early ==
  /\ ~aborted
  /\ mainPc \in {"wait3", "set_callback"}
  /\ receiveMessageCallback' = "receiveMessage_"
  /\ mainPc' = "start_server"
  /\ UNCHANGED <<ready_semaphore, released, clientCreated, serverStarted,
                 backend_task_runner, runVars, sdVars, histVars, sendVars,
                 extVars, sessionBound, aborted, nextId>>

\* receiveMessageCallback = receiveMessage_
kore_SetCallback ==
  /\ ~aborted
  /\ mainPc = "set_callback"
  /\ receiveMessageCallback' = "receiveMessage_"
  /\ mainPc' = "start_server"
  /\ UNCHANGED <<ready_semaphore, released, clientCreated, serverStarted,
                 backend_task_runner, runVars, sdVars, histVars, sendVars, extVars,
                 sessionBound, aborted, nextId>>

\* startServer(&ready_semaphore): the server signals, nobody waits for it
kore_StartServer ==
  /\ ~aborted
  /\ mainPc = "start_server"
  /\ serverStarted' = TRUE
  /\ ready_semaphore' = [ready_semaphore EXCEPT !["server"] = @ + 1]
  /\ mainPc' = "spin"
  /\ UNCHANGED <<released, clientCreated, receiveMessageCallback,
                 backend_task_runner, runVars, sdVars, histVars, sendVars, extVars,
                 sessionBound, aborted, nextId>>

\* while (true) {} : a loop without side effects.  The build may keep it
\* (the main thread stays here for ever, a stuttering step) or, the loop
\* being undefined behaviour, drop it and fall through to the code below.
kore_Spin ==
  /\ ~aborted
  /\ mainPc = "spin"
  /\ mainPc' = "read_boot"
  /\ UNCHANGED <<startVars, runVars, sdVars, histVars, sendVars, extVars,
                 sessionBound, aborted, nextId>>

\* ReadFile(test.js, &exists); if (!exists) Exit();
kore_ReadBoot(exists) ==
  /\ ~aborted
  /\ mainPc = "read_boot"
  /\ bootRead' = IF exists THEN "exists" ELSE "missing"
  /\ IF exists
       THEN /\ mainPc' = "append_boot"
            /\ UNCHANGED <<sdPhase, sdI>>
       ELSE /\ mainPc' = "exit_boot"
            /\ Exit("main")
  /\ UNCHANGED <<startVars, runVars, task_runners, histVars, sendVars, nest, lastLoad, notifLog, sessions, joinCalls,
                 sessionBound, aborted, nextId>>

\* frontend_runner.Append(new ExecuteStringTask(chars)), then the loop
\* while (true) { frontend_runner.Append(... chars2); Sleep(1000); }
kore_AppendBoot ==
  /\ ~aborted
  /\ mainPc \in {"append_boot", "loop"}
  /\ nextId <= MaxTasks
  /\ DoAppend("frontend", [id |-> nextId, kind |-> "Script", msg |-> ""])
  /\ mainPc' = "loop"
  /\ UNCHANGED <<startVars, rstate, terminated, cur, tpc, call, sdVars, log,
                 sessLog, recvLog, deferred, termCalls, joined, sendVars, extVars,
                 sessionBound, aborted>>

(* --------------------------- specification ------------------------------ *)
MainNext ==
  \/ kore_CreateBackend
  \/ \E k \in 1..3 : kore_Wait(k)
  \/ kore_CreateFrontend
  \/ kore_CreateClient
  \/ kore_Register
  \/ kore_SetCallback
  \/ kore_StartServer
  \/ kore_Spin
  \/ \E e \in BOOLEAN : kore_ReadBoot(e)
  \/ kore_AppendBoot
  \/ Terminate_Terminate("main")
  \/ Terminate_Join("main")
  \/ Terminate_Return("main")

RunnerNext(r) ==
  \/ RunnerStart(r)
  \/ RunnerTake(r)
  \/ TaskReturn(r)
  \/ TaskThrow(r)
  \/ TaskFinish(r)
  \/ RunnerExit(r)
  \/ \E a \in SetTimeoutArgs : SetTimeout(r, a)
  \/ Quit(r)
  \/ \E a \in LoadArgs, e \in BOOLEAN : Load(r, a, e)
  \/ Load_Return(r)
  \/ Terminate_Terminate(r)
  \/ Terminate_Join(r)
  \/ Terminate_Return(r)

Next ==
  \/ kore_CreateBackend
  \/ \E k \in 1..3 : kore_Wait(k)
  \/ kore_CreateFrontend
  \/ kore_CreateClient
  \/ kore_Register
  \/ kore_SetCallback
  \/ kore_StartServer
  \/ kore_Spin
  \/ \E e \in BOOLEAN : kore_ReadBoot(e)
  \/ kore_AppendBoot
  \/ \E r \in Runners : RunnerStart(r)
  \/ \E r \in Runners : RunnerTake(r)
  \/ \E r \in Runners : TaskReturn(r)
  \/ \E r \in Runners : TaskThrow(r)
  \/ \E r \in Runners : TaskFinish(r)
  \/ \E r \in Runners : RunnerExit(r)
  \/ \E r \in Runners, a \in SetTimeoutArgs : SetTimeout(r, a)
  \/ \E r \in Runners : Quit(r)
  \/ \E r \in Runners, a \in LoadArgs, e \in BOOLEAN : Load(r, a, e)
  \/ \E r \in Runners : Load_Return(r)
  \/ \E th \in Threads : Terminate_Terminate(th)
  \/ \E th \in Threads : Terminate_Join(th)
  \/ \E th \in Threads : Terminate_Return(th)
  \/ \E d \in Deliveries : receiveMessage_(d.from, d.msg)

Spec == Init /\ [][Next]_vars

\* the operating system schedules every thread that can take a step; the
\* transport's deliveries are inputs and get no fairness
FairSpec ==
  /\ Spec
  /\ WF_vars(MainNext)
  /\ \A r \in Runners : WF_vars(RunnerNext(r))


(* ------------------------- derived notions ------------------------------ *)
IsPrefix(a, b) ==
  /\ Len(a) <= Len(b)
  /\ \A i \in 1..Len(a) : a[i] = b[i]

IsStart(e) == e.ev = "start"
IsBegin(e) == e.ev = "begin"
IsDispatch(t) == t.kind = "Dispatch"
Ids(q) == [i \in 1..Len(q) |-> q[i].id]

\* ids of the Tasks Runner r has started, in order
StartedIds(r) == Ids(SelectSeq(log[r], IsStart))

\* Task id has started / has finished on Runner r
HasStarted(r, id) == \E i \in 1..Len(log[r]) : log[r][i] = [ev |-> "start", id |-> id]
HasEnded(r, id) == \E i \in 1..Len(log[r]) : log[r][i] = [ev |-> "end", id |-> id]

\* the log of Runner r is start(a), end(a), start(b), end(b), ...
Alternates(L) ==
  \A i \in 1..Len(L) :
    IF i % 2 = 1
      THEN L[i].ev = "start"
      ELSE L[i].ev = "end" /\ L[i].id = L[i-1].id

(* ------------------------------- C1 ------------------------------------- *)
\* C1: on every Runner the Tasks start in the order in which their Append
\* calls completed (whoever the producers were), and a Task starts only
\* after the Task started before it has ended.
C1_FifoNoOverlap ==
  \A r \in Runners :
    /\ IsPrefix(StartedIds(r), appendLog[r])
    /\ Alternates(log[r])

\* three producers (main thread, transport, setTimeout) have appended to the
\* backend Runner and all their Tasks have started
C1_Witness ==
  /\ Len(StartedIds("backend")) >= 3
  /\ \E i \in 1..Len(recvLog) : HasStarted("backend", recvLog[i].id)
  /\ \E d \in deferred : HasStarted("backend", d.id)

(* ------------------------------- C2 ------------------------------------- *)
\* C2: the target of an accepted setTimeout(target, 0) starts only as a
\* Task of the calling Runner, after the calling Task has ended and after
\* every Task that was queued on that Runner at the time of the call.
C2_TimeoutDeferred ==
  \A d \in deferred :
    /\ \A r \in Runners : HasStarted(r, d.id) => r = d.runner
    /\ HasStarted(d.runner, d.id) =>
         /\ HasEnded(d.runner, d.caller)
         /\ \A a \in d.ahead : HasEnded(d.runner, a)
         /\ \A i, j \in 1..Len(log[d.runner]) :
              /\ log[d.runner][i] = [ev |-> "start", id |-> d.id]
              /\ log[d.runner][j].ev = "end"
              /\ log[d.runner][j].id \in d.ahead \cup {d.caller}
              => j < i

\* a deferred target has run, and a Task was queued ahead of it
C2_Witness ==
  \E d \in deferred : HasStarted(d.runner, d.id) /\ d.ahead # {}


(* ------------------------------- C3 ------------------------------------- *)
\* a setTimeout call with rejected arguments is inside Exit() on Runner r
BadSetTimeoutCalled(r) == call[r].fn = "setTimeout"

\* C3: a setTimeout call whose arguments are rejected leads to the global
\* shutdown having been carried out: every registered Runner has been
\* Terminated and a Join on it has returned.
C3_BadTimeoutShutsDown ==
  (\E r \in Runners : BadSetTimeoutCalled(r))
    ~> (\A r \in Runners : terminated[r] /\ joined[r])

(* ------------------------------- C8 ------------------------------------- *)
\* a quit() call is inside Exit() on Runner r
QuitCalled(r) == call[r].fn = "quit"

\* C8: once a script has called quit(), the shutdown completes: every
\* Runner is Terminated and Joined and every Runner thread has exited.
C8_QuitCompletes ==
  (\E r \in Runners : QuitCalled(r))
    ~> (\A r \in Runners : terminated[r] /\ joined[r] /\ rstate[r] = "exited")


(* ------------------------------- C4 ------------------------------------- *)
\* C4: a call of receiveMessage_ does one thing: it appends one
\* DispatchProtocolMessage Task with the received text to the backend
\* Runner's queue.  The Session is not called, no thread state changes (the
\* caller does not wait), the frontend queue stays as it was.
C4_ReceiveOnlyAppends ==
  [][Len(recvLog') > Len(recvLog) =>
       LET c == recvLog'[Len(recvLog')] IN
         /\ recvLog' = Append(recvLog, c)
         /\ queue' = [queue EXCEPT !["backend"] =
                        Append(@, [id |-> c.id, kind |-> "Dispatch",
                                   msg |-> c.msg])]
         /\ UNCHANGED <<sessLog, sessionBound, rstate, cur, tpc, terminated,
                        log, aborted, sdVars, mainPc, startVars, call,
                        deferred, termCalls, joined>>]_vars

\* a message was received while the backend Runner was busy with a Task and
\* the frontend Runner had a Task queued
C4_Witness ==
  /\ rstate["backend"] = "running"
  /\ queue["frontend"] # <<>>
  /\ \E i \in 1..Len(recvLog), k \in 1..Len(queue["backend"]) :
       queue["backend"][k].id = recvLog[i].id

(* ------------------------------- C5 ------------------------------------- *)
BegunIds == Ids(SelectSeq(sessLog, IsBegin))
RecvIds == Ids(recvLog)
PendingIds == Ids(SelectSeq(queue["backend"], IsDispatch))

\* the Session's log is begin(a), end(a), begin(b), end(b), ...
SessAlternates ==
  \A i \in 1..Len(sessLog) :
    IF i % 2 = 1
      THEN sessLog[i].ev = "begin"
      ELSE sessLog[i].ev = "end" /\ sessLog[i].id = sessLog[i-1].id

\* C5: protocol dispatches never overlap, they happen in the order in which
\* the receiveMessage_ calls appended (whichever transport threads called),
\* each with the text received, and while the backend Runner is not
\* terminated every received message is either dispatched once or still
\* queued, none lost and none repeated.
C5_DispatchInOrderOnce ==
  /\ SessAlternates
  /\ IsPrefix(BegunIds, RecvIds)
  /\ \A i \in 1..Len(sessLog) : \E k \in 1..Len(recvLog) :
       recvLog[k].id = sessLog[i].id /\ recvLog[k].msg = sessLog[i].msg
  /\ ~terminated["backend"] => RecvIds = BegunIds \o PendingIds

\* two messages came from different transport threads and both dispatches
\* have ended
C5_Witness ==
  /\ Len(recvLog) >= 2
  /\ recvLog[1].from # recvLog[2].from
  /\ Len(sessLog) >= 4
  /\ sessLog[4].ev = "end"

(* ------------------------------- C6 ------------------------------------- *)
\* C6: every call of the Session's dispatch is made by the backend Runner's
\* thread with the backend context active, and a dispatch Task is only ever
\* in flight on the backend Runner, with a Session bound.
C6_DispatchOnBackendThread ==
  /\ \A i \in 1..Len(sessLog) :
       sessLog[i].thread = "backend" /\ sessLog[i].ctx = "backend"
  /\ \A r \in Runners :
       cur[r].kind = "Dispatch" => r = "backend" /\ sessionBound

\* a message delivered by transport thread t2 is being dispatched
C6_Witness ==
  \E i \in 1..Len(sessLog), k \in 1..Len(recvLog) :
    /\ sessLog[i].ev = "begin"
    /\ recvLog[k].id = sessLog[i].id
    /\ recvLog[k].from = "t2"

(* ------------------------------- C7 ------------------------------------- *)
\* the stage whose signal the k-th Wait of kore() is meant for
StageOf(k) == <<"backend", "frontend", "bridge">>[k]

\* C7: the frontend Runner exists only after the backend's ready signal
\* released the first Wait, the bridge only after the frontend's released
\* the second, the callback and the server only after the bridge's released
\* the third; no message is received before a Session is bound; and no Wait
\* is released by another stage's signal.
C7_StagedStartup ==
  /\ rstate["frontend"] # "none" =>
       released[1] = "backend" /\ rstate["backend"] \notin {"none", "init"}
  /\ clientCreated =>
       released[2] = "frontend" /\ rstate["frontend"] \notin {"none", "init"}
  /\ (receiveMessageCallback # "null" \/ serverStarted) =>
       released[3] = "bridge" /\ sessionBound
  /\ recvLog # <<>> => sessionBound
  /\ \A k \in 1..3 : released[k] \in {"none", StageOf(k)}

\* start-up is over, the server runs and a message has been received
C7_Witness ==
  /\ serverStarted
  /\ \A k \in 1..3 : released[k] = StageOf(k)
  /\ recvLog # <<>>

SendLens == {0, 1, 2, 3, MsgBufSize - 2, MsgBufSize - 1, MsgBufSize, MsgBufSize + 1}
\* code units tried: ASCII, Latin-1, and one that needs 16 bits
SendChars == {65, 233, 321}

\* a StringView: encoding, length, the code unit it is filled with and, for
\* an 8-bit view, whether the byte that follows the view in memory is NUL
SendInputs ==
  {[phase |-> "called", is8Bit |-> b, length |-> n, ch |-> c, nulAfter |-> z] :
     b \in BOOLEAN, n \in SendLens, c \in SendChars, z \in BOOLEAN}

\* an 8-bit view holds bytes; the byte after the view matters only for it
StringViews ==
  {v \in SendInputs : IF v.is8Bit THEN v.ch < 256 ELSE v.nulAfter}

\* the code units of the message
Message(v) == [i \in 1..v.length |-> v.ch]

\* a C string as sendMessage(const char*) reads it: the bytes before the
\* first NUL
CStr(bytes) ==
  LET nul == {i \in 1..Len(bytes) : bytes[i] = 0} IN
    IF nul = {} THEN bytes
    ELSE SubSeq(bytes, 1, (CHOOSE i \in nul : \A j \in nul : i <= j) - 1)

\* (char)message.characters16()[i]
ToChar(c) == c % 256

\* the bytes the 16-bit branch stores: msg[i] for i < length, msg[length] = 0
Transcoded(v) == [i \in 1..(v.length + 1) |->
                    IF i <= v.length THEN ToChar(v.ch) ELSE 0]

\* the 16-bit branch writes msg[0..length] into char msg[2048]
WritesPastBuffer(v) == ~v.is8Bit /\ v.length + 1 > MsgBufSize

SendMessageToFrontend ==
  /\ sendIn.phase = "called"
  /\ sendOut.phase = "none"
  /\ IF sendIn.is8Bit
       THEN \* sendMessage((const char*)message.characters8()): the view is
            \* read as a C string, up to whatever NUL follows it
            sendOut' = [phase |-> "sent", oob |-> FALSE,
                        text |-> IF sendIn.nulAfter
                                   THEN CStr(Message(sendIn) \o <<0>>)
                                   ELSE CStr(Message(sendIn) \o <<255, 0>>)]
       ELSE IF WritesPastBuffer(sendIn)
         THEN \* the stack beyond msg is overwritten: the call may still send
              \* what it stored, or the process may fault
              \/ sendOut' = [phase |-> "sent", oob |-> TRUE,
                             text |-> CStr(Transcoded(sendIn))]
              \/ sendOut' = [phase |-> "crashed", oob |-> TRUE, text |-> <<>>]
         ELSE sendOut' = [phase |-> "sent", oob |-> FALSE,
                          text |-> CStr(Transcoded(sendIn))]
  /\ UNCHANGED <<mainPc, startVars, runVars, sdVars, histVars, sendIn,
                 extVars, sessionBound, aborted, nextId>>

SendInit == InitRun /\ sendIn \in StringViews /\ sendOut = NoSend

SendNext == SendMessageToFrontend

SendSpec == SendInit /\ [][SendNext]_vars

(* ------------------------------- C10 ------------------------------------ *)
\* C10: whatever the length and the encoding of the message, what
\* SendMessageToFrontend hands to sendMessage has the length and the
\* characters of the message, and no write leaves the transcoding buffer.
C10_SendPreservesMessage ==
  sendOut.phase # "none" =>
    /\ sendOut.phase = "sent"
    /\ ~sendOut.oob
    /\ sendOut.text = Message(sendIn)


(* ------------------------------- C11 ------------------------------------ *)
\* C11: a call of load with one string argument that names a missing file
\* raises the error and does nothing else: no script text is run, no Task is
\* enqueued, no Runner is terminated, no shutdown is started, and the calling
\* Task stays in flight with its script running on.
C11_LoadMissingOnlyRaises ==
  [][\A r \in Runners :
       (/\ lastLoad'[r].ev = "error"
        /\ lastLoad'[r] # lastLoad[r]
        /\ ~lastLoad'[r].rejected)
         => /\ nest' = nest
            /\ queue' = queue /\ appendLog' = appendLog /\ nextId' = nextId
            /\ terminated' = terminated /\ termCalls' = termCalls
            /\ sdPhase' = sdPhase /\ sdI' = sdI /\ task_runners' = task_runners
            /\ rstate' = rstate /\ cur' = cur /\ log' = log
            /\ tpc'[r] = "body" /\ call' = call
            /\ ~aborted']_vars

\* the error of a load of a missing file was not caught by the script: the
\* Task is over, the Runner is not terminated and has its next Task queued
C11_Witness ==
  \E r \in Runners :
    /\ lastLoad[r].ev = "error"
    /\ ~lastLoad[r].rejected
    /\ tpc[r] = "threw"
    /\ ~terminated[r]
    /\ queue[r] # <<>>

(* ------------------------------- C12 ------------------------------------ *)
\* C12: a call of load that names an existing file starts the text of the
\* file inside the call, on the calling Runner, and appends no Task; until
\* load returns the calling Task stays the one in flight, so no Task queued
\* on that Runner starts before the text has run.
C12_LoadRunsInline ==
  [][\A r \in Runners :
       /\ (/\ lastLoad'[r].ev = "run"
           /\ lastLoad'[r] # lastLoad[r]
           /\ ~lastLoad'[r].rejected)
            => /\ nest'[r] = nest[r] + 1
               /\ queue' = queue /\ appendLog' = appendLog
               /\ nextId' = nextId
               /\ cur' = cur /\ rstate' = rstate /\ log' = log
       /\ nest[r] > 0
            => /\ cur'[r] = cur[r]
               /\ rstate'[r] = "running"
               /\ log'[r] = log[r]
               /\ nest'[r] < nest[r]
                    => /\ nest'[r] = nest[r] - 1
                       /\ tpc'[r] = "body"
                       /\ queue' = queue]_vars

\* the text of a loaded file is running while a Task waits in the queue of
\* the same Runner
C12_Witness ==
  \E r \in Runners :
    /\ nest[r] > 0
    /\ lastLoad[r].ev = "run"
    /\ queue[r] # <<>>

(* ------------------------------- C13 ------------------------------------ *)
\* C13: a thread inside the global shutdown calls Terminate on the next
\* Runner of the list only when the thread of the Runner before it has
\* exited with no Task in flight; and a Runner whose thread has exited
\* stays so and starts no further Task.
C13_TerminateThenJoinInTurn ==
  [][/\ \A th \in Threads :
          (sdPhase[th] = "terminate" /\ sdPhase'[th] = "join" /\ sdI[th] >= 2)
            => /\ rstate[task_runners[sdI[th] - 1]] = "exited"
               /\ cur[task_runners[sdI[th] - 1]] = NoTask
               /\ termCalls[task_runners[sdI[th] - 1]] >= 1
     /\ \A r \in Runners :
          rstate[r] = "exited" => rstate'[r] = "exited" /\ log'[r] = log[r]]_vars

\* a shutdown has terminated the second Runner of the list, after the first
\* one had run a Task
C13_Witness ==
  \E th \in Threads :
    /\ sdI[th] = 2
    /\ sdPhase[th] = "join"
    /\ log[task_runners[1]] # <<>>

(* ------------------------------- C17 ------------------------------------ *)
\* the state of the Debug Session Bridge: 0 Uninitialized, 1 Bound,
\* 2 Active, 3 Torn-down
BridgeState ==
  IF ~sessionBound THEN 0
  ELSE IF terminated["backend"] THEN 3
  ELSE IF receiveMessageCallback # "null" THEN 2 ELSE 1

\* C17: the bridge only moves forward; once constructed it stays constructed
\* and once bound it stays bound, the callback is set only when a Session is
\* bound, and the backend context never has more than one Session.
C17_BridgeForwardOnly ==
  /\ [](sessions <= 1)
  /\ [](receiveMessageCallback # "null" => sessionBound /\ clientCreated)
  /\ [](sessionBound => sessions = 1 /\ clientCreated)
  /\ [][/\ BridgeState' >= BridgeState
        /\ clientCreated => clientCreated'
        /\ sessionBound => sessionBound' /\ sessions' = sessions]_vars

\* the bridge has been Active (a message was received) and is now Torn-down
C17_Witness ==
  /\ BridgeState = 3
  /\ recvLog # <<>>

(* ------------------------------- C18 ------------------------------------ *)
\* C18: the bootstrap script is read only once start-up is over; when it is
\* missing the main thread goes into the global shutdown and appends no
\* script; a script is appended to the frontend Runner only when the file
\* was there.
C18_BootstrapReadOrShutdown ==
  /\ bootRead # "none" => serverStarted
  /\ bootRead = "missing" =>
       /\ sdPhase["main"] # "none" \/ task_runners = <<>>
       /\ mainPc # "loop"
  /\ mainPc = "loop" => bootRead = "exists"

C15_ThrowAbortsOnlyTask ==
  /\ [](\A r \in Runners :
          tpc[r] = "threw" =>
            rstate[r] = "running" /\ cur[r].kind \in {"Script", "Timer"})
  /\ [][\A r \in Runners :
          /\ (tpc'[r] = "threw" /\ tpc[r] # "threw")
               => /\ terminated' = terminated /\ termCalls' = termCalls
                  /\ queue' = queue
                  /\ sdPhase' = sdPhase /\ task_runners' = task_runners
                  /\ ~aborted'
          /\ (tpc[r] = "threw" /\ tpc'[r] # "threw")
               => /\ rstate'[r] = "idle"
                  /\ cur'[r] = NoTask
                  /\ queue'[r] = queue[r]
                  /\ terminated' = terminated
                  /\ ~aborted']_vars

\* a script has thrown on a Runner that is not terminated and has a Task
\* queued
C15_Witness ==
  \E r \in Runners :
    /\ tpc[r] = "threw"
    /\ lastLoad[r].ev = "none"
    /\ ~terminated[r]
    /\ queue[r] # <<>>

(* ------------------------------- C19 ------------------------------------ *)
\* C19: no Task was ever appended by a setTimeout call whose arguments were
\* rejected, no file was ever read or run by a load call whose arguments
\* were rejected, and the step that rejects a call starts the shutdown and
\* changes no queue and runs no script text.
C19_RejectedCallOnlyShutsDown ==
  /\ [](\A d \in deferred : ~d.rejected)
  /\ [](\A r \in Runners : ~lastLoad[r].rejected)
  /\ [][\A r \in Runners :
          (call'[r].fn \in {"setTimeout", "load"} /\ call'[r] # call[r])
            => /\ sdPhase'[r] = "terminate"
               /\ queue' = queue /\ appendLog' = appendLog
               /\ nextId' = nextId /\ deferred' = deferred
               /\ nest' = nest /\ lastLoad' = lastLoad
               /\ log' = log]_vars

\* a setTimeout call and a load call have both been rejected
C19_Witness ==
  /\ call["backend"].fn = "setTimeout"
  /\ call["frontend"].fn = "load"


(* ------------- the Tasks of a Runner, run on their own ------------------ *)
\* the Tasks of this file: SendMessageToBackendTask, SetTimeoutTask, and
\* ExecuteStringTask
TaskKinds == {"Dispatch", "Timer", "Script"}

\* the queues tried: every sequence of at most MaxQueue Tasks, numbered in
\* the order of their Append
TaskQueues ==
  UNION {[1..n -> TaskKinds] : n \in 0..MaxQueue}

QueueOf(ks) ==
  [i \in 1..Len(ks) |->
     [id |-> i, kind |-> ks[i], msg |-> IF ks[i] = "Dispatch" THEN "cmd1" ELSE ""]]

\* the backend Runner waits in its loop with a queue of Tasks, in a context
\* that has a Session and an inspector, or has none
TaskInit ==
  /\ \E ks \in TaskQueues :
       /\ queue = [r \in Runners |-> IF r = "backend" THEN QueueOf(ks) ELSE <<>>]
       /\ appendLog = [r \in Runners |->
                         IF r = "backend" THEN Ids(QueueOf(ks)) ELSE <<>>]
       /\ nextId = Len(ks) + 1
  /\ sessionBound \in BOOLEAN
  /\ sessions = IF sessionBound THEN 1 ELSE 0
  /\ clientCreated = sessionBound
  /\ mainPc = "spin"
  /\ ready_semaphore = [s \in Stages |-> 0]
  /\ released = [k \in 1..3 |-> StageOf(k)]
  /\ rstate = [r \in Runners |-> "idle"]
  /\ terminated = [r \in Runners |-> FALSE]
  /\ cur = [r \in Runners |-> NoTask]
  /\ tpc = [r \in Runners |-> "-"]
  /\ call = [r \in Runners |-> NoCall]
  /\ receiveMessageCallback = "null"
  /\ serverStarted = FALSE
  /\ task_runners = <<"frontend", "backend">>
  /\ backend_task_runner = "backend"
  /\ sdPhase = [th \in Threads |-> "none"]
  /\ sdI = [th \in Threads |-> 0]
  /\ aborted = FALSE
  /\ log = [r \in Runners |-> <<>>]
  /\ sessLog = <<>>
  /\ recvLog = <<>>
  /\ deferred = {}
  /\ termCalls = [r \in Runners |-> 0]
  /\ joined = [r \in Runners |-> FALSE]
  /\ nest = [r \in Runners |-> 0]
  /\ lastLoad = [r \in Runners |-> NoLoad]
  /\ notifLog = [r \in Runners |-> <<>>]
  /\ bootRead = "none"
  /\ joinCalls = [r \in Runners |-> 0]
  /\ sendIn = NoSend
  /\ sendOut = NoSend

TaskNext ==
  \/ \E r \in Runners : RunnerTake(r)
  \/ \E r \in Runners : TaskReturn(r)
  \/ \E r \in Runners : TaskThrow(r)
  \/ \E r \in Runners : TaskFinish(r)

TaskSpec == TaskInit /\ [][TaskNext]_vars

(* ------------------------------- C14 ------------------------------------ *)
\* C14: a dispatch Task taken in a context with no Session aborts the
\* process: nothing was ever dispatched in a context with no Session, the
\* process is aborted whenever such a Task is the one in flight, and no
\* step is taken once the process is aborted.
C14_DispatchWithoutSessionAborts ==
  /\ [](\A i \in 1..Len(sessLog) :
          SessionFromContext(sessLog[i].ctx) # "null")
  /\ [](\A r \in Runners :
          (cur[r].kind = "Dispatch" /\ SessionFromContext(r) = "null")
            => aborted)
  /\ [](aborted =>
          \E r \in Runners :
            cur[r].kind = "Dispatch" /\ SessionFromContext(r) = "null")
  /\ [][~aborted]_vars

\* the process was aborted by a dispatch Task that ran after another Task,
\* with a Task still queued behind it
C14_Witness ==
  \E r \in Runners :
    /\ aborted
    /\ cur[r].kind = "Dispatch"
    /\ Len(log[r]) > 1
    /\ queue[r] # <<>>

(* ------------------------------- C16 ------------------------------------ *)
\* C16: while the function of a timer Task runs, the notifications of the
\* Task are "will execute" followed by the call when the context has an
\* inspector, and the call alone when it has none; once the function has
\* returned or thrown they are "will", call, return, "did", or call, return;
\* and no notification is pending on a Runner outside a timer Task.
C16_NotificationsPaired ==
  \A r \in Runners :
    LET insp == InspectorFromContext(r) # "null" IN
      /\ cur[r].kind # "Timer" => notifLog[r] = <<>>
      /\ (cur[r].kind = "Timer" /\ tpc[r] = "body")
            => notifLog[r] = IF insp THEN <<"will", "invoke">>
                                     ELSE <<"invoke">>
      /\ (cur[r].kind = "Timer" /\ tpc[r] \in {"done", "threw"})
            => notifLog[r] = IF insp
                               THEN <<"will", "invoke", "return", "did">>
                               ELSE <<"invoke", "return">>
      /\ cur[r].kind = "Timer" => tpc[r] \in {"body", "done", "threw", "exit"}

\* the function of a timer Task threw in a context with an inspector, after
\* an earlier Task of the Runner
C16_Witness ==
  \E r \in Runners :
    /\ cur[r].kind = "Timer"
    /\ tpc[r] = "threw"
    /\ InspectorFromContext(r) # "null"
    /\ Len(log[r]) > 1

====
